---- MODULE Spec2Model ----
(***************************************************************************)
(* MicroPhenom-AI: the InterviewRecorder component (audio capture, its    *)
(* duration timer and its hand-off through onSave) and the Gemini         *)
(* analysis client (getWelcomeMessage, analyzeTextTranscript,             *)
(* analyzeInterview).                                                     *)
(*                                                                         *)
(* The recorder is modelled as the event loop sees it: every user click,  *)
(* promise settlement, MediaRecorder task and interval callback is one    *)
(* atomic action, and they interleave freely.  React state is read from   *)
(* the latest committed render; after unmount every setState is a no-op   *)
(* while refs, timers, streams and closures live on.                      *)
(***************************************************************************)
EXTENDS Integers, Sequences, FiniteSets, TLC

\* ---------------------------------------------------------------- bounds
\* number of startRecording invocations followed in one mounted component
MaxStarts == 2
\* cap of the duration counter (seconds)
MaxDuration == 2
\* number of AudioContexts the visualizer's effect creates in one run
MaxContexts == 3
\* number of requestAnimationFrame calls followed in one run
MaxFrames == 4

Calls == 1 .. MaxStarts
\* `null` for stream / mediaRecorderRef.current / timerRef.current
Null == 0

VARIABLES
  mounted,           \* component mounted (the effect's `mounted` flag, line 24)
  isRecording,       \* useState(false), line 12
  duration,          \* useState(0), line 13
  stream,            \* useState<MediaStream|null>(null), line 14
  welcomeMessage,    \* useState(''), line 16
  isLoadingMessage,  \* useState(true), line 17
  mediaRecorderRef,  \* useRef(null), line 19
  chunksRef,         \* useRef([]), line 20
  timerRef,          \* useRef(null), line 21
  startPc,           \* position of each startRecording invocation
  recorders,         \* the MediaRecorder objects: state and onstop handler
  openStreams,       \* MediaStreams whose tracks are still live
  liveTimers,        \* intervals created by setInterval and not cleared
  alerts,            \* number of alert() warnings shown
  saved,             \* the onSave(blob, duration) calls made so far
  elapsed,           \* per recording: one-second callbacks of its interval
  delivered,         \* per recording: the non-empty chunks its recorder delivered
  recorderMime,      \* the encoding this browser's MediaRecorder produces
  welcomeIn,         \* what the backend did for fetchWelcome's call
  welcomeOut,        \* the settlement of getWelcomeMessage()
  clientFn,          \* the analysis entry point that was called
  clientIn,          \* what the backend does for that call
  clientOut,         \* the settlement of the promise it returned
  canvasRef,         \* MicrophoneVisualizer: canvasRef.current is attached
  animationRef,      \* MicrophoneVisualizer: useRef(null), line 10
  audioContexts,     \* AudioContexts created and not closed
  frames,            \* animation-frame callbacks requested and not yet run
  effectCleanup,     \* the cleanup the last effect run returned
  effectPending,     \* a commit changed the deps and its effect has not run
  nextContext,       \* AudioContexts created so far, plus one
  nextFrame,         \* the id the next requestAnimationFrame returns
  lastOp             \* the handler that ran last

recVars == <<mounted, isRecording, duration, stream, mediaRecorderRef,
             chunksRef, timerRef, startPc, recorders, openStreams,
             liveTimers, alerts, saved, elapsed, delivered, recorderMime>>
welcomeVars == <<welcomeMessage, isLoadingMessage, welcomeIn, welcomeOut>>
clientVars == <<clientFn, clientIn, clientOut>>
vizVars == <<canvasRef, animationRef, audioContexts, frames, effectCleanup,
             effectPending, nextContext, nextFrame>>
vars == <<recVars, welcomeVars, clientVars, vizVars, lastOp>>

\* ------------------------------------------------------ getWelcomeMessage
FallbackWelcome == "Welcome. Let's explore the micro-dimensions of your experience. Please start by identifying a specific moment you wish to investigate."

\* what the backend interaction can do: the client constructor throws, the
\* call throws, or the call returns a response whose text is absent
\* (undefined), empty or non-empty
BackendOutcomes ==
  { [ctor |-> "throws", call |-> "none",    text |-> ""],
    [ctor |-> "ok",     call |-> "throws",  text |-> ""],
    [ctor |-> "ok",     call |-> "absent",  text |-> ""],
    [ctor |-> "ok",     call |-> "returns", text |-> ""],
    [ctor |-> "ok",     call |-> "returns", text |-> "Take a breath and recall one moment."] }

\* JavaScript truthiness of response.text
TruthyText(o) == o.call = "returns" /\ o.text # ""

\* the settlement of the promise returned by getWelcomeMessage
getWelcomeMessage(o) ==
  IF o.ctor = "throws"
    THEN [kind |-> "rejects", value |-> "client construction error"]
  ELSE IF o.call = "throws"
    THEN [kind |-> "returns", value |-> FallbackWelcome]
  ELSE IF TruthyText(o)
    THEN [kind |-> "returns", value |-> o.text]
  ELSE [kind |-> "returns", value |-> FallbackWelcome]

\* ------------------------------------------------------------------ JSON
\* A response text is the sequence of its lexical tokens; a JSON value is a
\* tagged record: strings and numbers carry their literal, an array the
\* sequence of its elements, an object the sequence of its <<key, value>>
\* members in insertion order.
P(c) == [k |-> "punct", v |-> c]
StrTok(s) == [k |-> "str", v |-> s]
NumTok(n) == [k |-> "num", v |-> n]
WordTok(w) == [k |-> "word", v |-> w]

JStr(s) == [t |-> "str", v |-> s]
JNum(n) == [t |-> "num", v |-> n]
JArr(elems) == [t |-> "arr", v |-> elems]
JObj(members) == [t |-> "obj", v |-> members]
JNull == [t |-> "null", v |-> <<>>]

\* JSON.stringify
RECURSIVE JSONStringify(_), StringifyElements(_, _), StringifyMembers(_, _)
JSONStringify(val) ==
  CASE val.t = "str" -> <<StrTok(val.v)>>
    [] val.t = "num" -> <<NumTok(val.v)>>
    [] val.t = "arr" -> <<P("[")>> \o StringifyElements(val.v, 1) \o <<P("]")>>
    [] val.t = "obj" -> <<P("{")>> \o StringifyMembers(val.v, 1) \o <<P("}")>>
    [] OTHER -> <<WordTok("null")>>
StringifyElements(elems, i) ==
  IF i > Len(elems) THEN <<>>
  ELSE (IF i > 1 THEN <<P(",")>> ELSE <<>>)
         \o JSONStringify(elems[i]) \o StringifyElements(elems, i + 1)
StringifyMembers(members, i) ==
  IF i > Len(members) THEN <<>>
  ELSE (IF i > 1 THEN <<P(",")>> ELSE <<>>)
         \o <<StrTok(members[i][1]), P(":")>> \o JSONStringify(members[i][2])
         \o StringifyMembers(members, i + 1)

TokAt(toks, i) == IF i <= Len(toks) THEN toks[i] ELSE [k |-> "eof", v |-> ""]
ParseFail == [ok |-> FALSE, val |-> JNull, next |-> 0]

\* an object keeps one member per key: a repeated key overwrites the value
\* in place
RECURSIVE PutMember(_, _, _, _)
PutMember(members, key, val, i) ==
  IF i > Len(members) THEN Append(members, <<key, val>>)
  ELSE IF members[i][1] = key THEN [members EXCEPT ![i] = <<key, val>>]
  ELSE PutMember(members, key, val, i + 1)

\* recursive descent over the tokens, as JSON.parse reads the text
RECURSIVE ParseValue(_, _), ParseElements(_, _, _), ParseMembers(_, _, _)
ParseValue(toks, i) ==
  LET tk == TokAt(toks, i)
  IN CASE tk.k = "str" -> [ok |-> TRUE, val |-> JStr(tk.v), next |-> i + 1]
       [] tk.k = "num" -> [ok |-> TRUE, val |-> JNum(tk.v), next |-> i + 1]
       [] tk = WordTok("null") -> [ok |-> TRUE, val |-> JNull, next |-> i + 1]
       [] tk = P("[") ->
            IF TokAt(toks, i + 1) = P("]")
              THEN [ok |-> TRUE, val |-> JArr(<<>>), next |-> i + 2]
              ELSE ParseElements(toks, i + 1, <<>>)
       [] tk = P("{") ->
            IF TokAt(toks, i + 1) = P("}")
              THEN [ok |-> TRUE, val |-> JObj(<<>>), next |-> i + 2]
              ELSE ParseMembers(toks, i + 1, <<>>)
       [] OTHER -> ParseFail
ParseElements(toks, i, acc) ==
  LET r == ParseValue(toks, i)
  IN IF ~r.ok THEN ParseFail
     ELSE LET sep == TokAt(toks, r.next)
          IN IF sep = P(",") THEN ParseElements(toks, r.next + 1, Append(acc, r.val))
             ELSE IF sep = P("]")
               THEN [ok |-> TRUE, val |-> JArr(Append(acc, r.val)), next |-> r.next + 1]
             ELSE ParseFail
ParseMembers(toks, i, acc) ==
  LET key == TokAt(toks, i)
  IN IF key.k # "str" \/ TokAt(toks, i + 1) # P(":") THEN ParseFail
     ELSE LET r == ParseValue(toks, i + 2)
          IN IF ~r.ok THEN ParseFail
             ELSE LET sep == TokAt(toks, r.next)
                      acc2 == PutMember(acc, key.v, r.val, 1)
                  IN IF sep = P(",") THEN ParseMembers(toks, r.next + 1, acc2)
                     ELSE IF sep = P("}")
                       THEN [ok |-> TRUE, val |-> JObj(acc2), next |-> r.next + 1]
                     ELSE ParseFail

\* JSON.parse: the value, or a SyntaxError when the text is not one value
JSONParse(text) ==
  LET r == ParseValue(text, 1)
  IN IF r.ok /\ r.next = Len(text) + 1
       THEN [ok |-> TRUE, val |-> r.val]
       ELSE [ok |-> FALSE, val |-> JNull]

\* property access on a parsed value: obj[key], `undefined` when absent
HasField(val, key) ==
  val.t = "obj" /\ \E i \in 1 .. Len(val.v) : val.v[i][1] = key
Field(val, key) ==
  LET i == CHOOSE i \in 1 .. Len(val.v) : val.v[i][1] = key IN val.v[i][2]

\* ------------------------------------------------------- analysis client
ArrayFields == {"transcriptSegments", "diachronicStructure", "synchronicStructure",
                "satellites", "suggestions"}
ResultFields == ArrayFields \cup {"summary"}
FieldOrder == <<"transcriptSegments", "summary", "diachronicStructure",
                "synchronicStructure", "satellites", "suggestions">>

HasText_mut(o) == o.call = "returns"
\* if (response.text): absent and empty texts are falsy
HasText(o) == o.call = "returns" /\ o.text # <<>>

NoResponseError == "Error: No response text from Gemini"
Rejects(err) == [kind |-> "rejects", value |-> JNull, error |-> err]
Returns(val) == [kind |-> "returns", value |-> val, error |-> ""]
Pending == [kind |-> "pending", value |-> JNull, error |-> ""]

NotSuggestions(m) == m[1] # "suggestions"
AnalyzeResponse_mut(o) ==
  IF o.call = "throws" THEN Rejects(o.err)
  ELSE IF HasText(o)
    THEN LET p == JSONParse(o.text)
         IN IF ~p.ok THEN Rejects("SyntaxError")
            ELSE IF p.val.t = "obj" THEN Returns(JObj(SelectSeq(p.val.v, NotSuggestions)))
            ELSE Returns(p.val)
  ELSE Rejects(NoResponseError)
\* the try block shared by the two analysis entry points: await
\* generateContent, test response.text, JSON.parse it; the catch block logs
\* and rethrows
AnalyzeResponse(o) ==
  IF o.call = "throws" THEN Rejects(o.err)
  ELSE IF HasText(o)
    THEN LET p == JSONParse(o.text)
         IN IF p.ok THEN Returns(p.val) ELSE Rejects("SyntaxError")
  ELSE Rejects(NoResponseError)

\* the settlement of analyzeTextTranscript(text)
analyzeTextTranscript(o) ==
  IF o.ctor = "throws" THEN Rejects("client construction error")
  ELSE AnalyzeResponse(o)

\* the settlement of analyzeInterview(audioBlob): blobToBase64 is awaited
\* before the try block
analyzeInterview(o) ==
  IF o.ctor = "throws" THEN Rejects("client construction error")
  ELSE IF o.read = "error" THEN Rejects("FileReader error")
  ELSE AnalyzeResponse(o)

\* ---- the backend behaviours the analysis entry points are checked against
Segment == JObj(<< <<"speaker", JStr("Interviewee")>>,
                   <<"text", JStr("I walked into the room")>>,
                   <<"timestamp", JStr("00:00")>> >>)
Segment2 == JObj(<< <<"speaker", JStr("Interviewer")>>,
                    <<"text", JStr("What did you feel?")>>,
                    <<"timestamp", JStr("00:15")>> >>)
Phase == JObj(<< <<"phase", JStr("Entering")>>,
                 <<"description", JStr("walks in")>>,
                 <<"timestampEstimate", JStr("00:05")>> >>)
Entry == JObj(<< <<"modality", JStr("Kinesthetic")>>,
                 <<"description", JStr("chest")>>,
                 <<"submodality", JStr("tightness")>> >>)

WellTyped(f) ==
  CASE f = "transcriptSegments" -> JArr(<<Segment, Segment2>>)
    [] f = "summary" -> JStr("A moment of tightness")
    [] f = "diachronicStructure" -> JArr(<<Phase>>)
    [] f = "synchronicStructure" -> JArr(<<Entry>>)
    [] f = "satellites" -> JArr(<<>>)
    [] OTHER -> JArr(<<JStr("Where is it located?"), JStr("Is it moving?")>>)

AllMembers == [i \in 1 .. Len(FieldOrder) |-> <<FieldOrder[i], WellTyped(FieldOrder[i])>>]
InFields(m, S) == m[1] \in S
\* the payload that carries exactly the fields of S, each well typed
Doc(S) == JObj(SelectSeq(AllMembers, LAMBDA m : InFields(m, S)))
FullDoc == Doc(ResultFields)

\* payloads with one or more of the six fields missing, and the full one
WellTypedTexts == { JSONStringify(Doc(S)) : S \in SUBSET ResultFields }

\* well-formed JSON whose content does not have the schema's types
MistypedDocs ==
  << JObj(<< <<"summary", JNum("5")>> >>),
    JObj(<< <<"transcriptSegments", JStr("none")>>, <<"summary", JStr("s")>> >>),
    JObj(<< <<"satellites", JArr(<<JNum("1")>>)>> >>),
    JObj(<< <<"transcriptSegments", JArr(<<JObj(<< <<"speaker", JNum("1")>> >>)>>)>> >>),
    JArr(<<>>),
    JStr("ok"),
    JNum("42"),
    JNull >>
MistypedTexts == { JSONStringify(MistypedDocs[i]) : i \in 1 .. Len(MistypedDocs) }

\* texts that are not JSON at all
NonJsonTexts ==
  { <<WordTok("Sorry")>>,
    SubSeq(JSONStringify(FullDoc), 1, Len(JSONStringify(FullDoc)) - 1),
    <<P("{"), StrTok("summary"), StrTok("x"), P("}")>>,
    <<P("["), StrTok("a"), P(","), P("]")>>,
    JSONStringify(FullDoc) \o <<P("}")>> }

ResponseTexts == WellTypedTexts \cup MistypedTexts \cup NonJsonTexts

\* what generateContent can throw: the transport or the service fails, or the
\* HTTP body it received is not JSON
BackendErrors == {"TypeError: Failed to fetch", "ApiError: 503", "SyntaxError"}

AnalysisOutcomes ==
  { [ctor |-> "throws", read |-> "none", call |-> "none", err |-> "", text |-> <<>>],
    [ctor |-> "ok", read |-> "ok", call |-> "absent", err |-> "", text |-> <<>>],
    [ctor |-> "ok", read |-> "ok", call |-> "returns", err |-> "", text |-> <<>>] }
  \cup { [ctor |-> "ok", read |-> "ok", call |-> "throws", err |-> e, text |-> <<>>] :
           e \in BackendErrors }
  \cup { [ctor |-> "ok", read |-> "ok", call |-> "returns", err |-> "", text |-> t] :
           t \in ResponseTexts }

\* the FileReader of blobToBase64 fails
ReadFailure == [ctor |-> "ok", read |-> "error", call |-> "none", err |-> "", text |-> <<>>]

\* ---------------------------------------------------------------- recorder
\* `new MediaRecorder(mediaStream)` is given no mimeType: the browser encodes
\* in its own default container
RecorderMimeTypes == {"audio/webm", "audio/mp4"}
\* the label stopRecording puts on the Blob
BlobType == "audio/wav"

NoHandler == [set |-> FALSE, stream |-> Null, duration |-> 0]
NoRecorder == [state |-> "absent", onstop |-> NoHandler]

RecorderInit ==
  /\ mounted = TRUE
  /\ isRecording = FALSE
  /\ duration = 0
  /\ stream = Null
  /\ welcomeMessage = ""
  /\ isLoadingMessage = TRUE
  /\ mediaRecorderRef = Null
  /\ chunksRef = <<>>
  /\ timerRef = Null
  /\ startPc = [c \in Calls |-> "none"]
  /\ recorders = [c \in Calls |-> NoRecorder]
  /\ openStreams = {}
  /\ liveTimers = {}
  /\ alerts = 0
  /\ saved = <<>>
  /\ elapsed = [c \in Calls |-> 0]
  /\ delivered = [c \in Calls |-> <<>>]
  /\ recorderMime \in RecorderMimeTypes
  /\ welcomeIn = [ctor |-> "ok", call |-> "none", text |-> ""]
  /\ welcomeOut = [kind |-> "pending", value |-> ""]

\* MicrophoneVisualizer after its first render: the recorder passes
\* stream = null, so the first effect run returns at line 15
VisualizerInit ==
  /\ canvasRef = TRUE
  /\ animationRef = Null
  /\ audioContexts = {}
  /\ frames = {}
  /\ effectCleanup = Null
  /\ effectPending = FALSE
  /\ nextContext = 1
  /\ nextFrame = 1

Init ==
  /\ RecorderInit
  /\ clientFn = "none"
  /\ clientIn = ReadFailure
  /\ clientOut = Pending
  /\ VisualizerInit
  /\ lastOp = "mount"

\* setState on an unmounted component is dropped
SetState(old, new) == IF mounted THEN new ELSE old

StartShown_mut == mounted /\ ~isRecording /\ ~isLoadingMessage
\* the controls: the Start button is rendered while !isRecording, the Stop
\* button otherwise
StartShown == mounted /\ ~isRecording
StopShown == mounted /\ isRecording

\* the Start button is clicked: startRecording runs up to the await of
\* getUserMedia
StartRecording ==
  /\ StartShown
  /\ \E c \in Calls :
       /\ startPc[c] = "none"
       /\ \A d \in Calls : d < c => startPc[d] # "none"
       /\ startPc' = [startPc EXCEPT ![c] = "awaiting"]
  /\ lastOp' = "startRecording"
  /\ UNCHANGED <<mounted, isRecording, duration, stream, mediaRecorderRef,
                 chunksRef, timerRef, recorders, openStreams, liveTimers,
                 alerts, saved, elapsed, delivered, recorderMime,
                 welcomeVars, clientVars, vizVars>>

\* getUserMedia rejects (permission refused, no device): the catch block
GetUserMediaRejects(c) ==
  /\ startPc[c] = "awaiting"
  /\ startPc' = [startPc EXCEPT ![c] = "failed"]
  /\ alerts' = alerts + 1
  /\ lastOp' = "startRejected"
  /\ UNCHANGED <<mounted, isRecording, duration, stream, mediaRecorderRef,
                 chunksRef, timerRef, recorders, openStreams, liveTimers,
                 saved, elapsed, delivered, recorderMime,
                 welcomeVars, clientVars, vizVars>>

\* getUserMedia resolves with a live stream, setStream runs, and then
\* `new MediaRecorder(mediaStream)` throws: the catch block
MediaRecorderThrows(c) ==
  /\ startPc[c] = "awaiting"
  /\ openStreams' = openStreams \cup {c}
  /\ stream' = SetState(stream, c)
  /\ startPc' = [startPc EXCEPT ![c] = "failed"]
  /\ alerts' = alerts + 1
  /\ lastOp' = "startThrew"
  /\ UNCHANGED <<mounted, isRecording, duration, mediaRecorderRef,
                 chunksRef, timerRef, recorders, liveTimers,
                 saved, elapsed, delivered, recorderMime,
                 welcomeVars, clientVars, vizVars>>

\* getUserMedia resolves and the rest of the try block runs
GetUserMediaResolves(c) ==
  /\ startPc[c] = "awaiting"
  /\ openStreams' = openStreams \cup {c}
  /\ stream' = SetState(stream, c)
  /\ mediaRecorderRef' = c
  /\ chunksRef' = <<>>
  /\ recorders' = [recorders EXCEPT ![c] = [state |-> "recording", onstop |-> NoHandler]]
  /\ isRecording' = SetState(isRecording, TRUE)
  /\ timerRef' = c
  /\ liveTimers' = liveTimers \cup {c}
  /\ startPc' = [startPc EXCEPT ![c] = "done"]
  /\ lastOp' = "startResolved"
  /\ UNCHANGED <<mounted, duration, alerts, saved, elapsed, delivered, recorderMime,
                 welcomeVars, clientVars, vizVars>>

StopGuard_mut == mediaRecorderRef # Null
\* the guard of stopRecording
StopGuard == mediaRecorderRef # Null /\ isRecording

StopRecording_mut ==
  /\ mounted
  /\ lastOp' = "stopRecording"
  /\ IF StopGuard
       THEN /\ recorders' =
                 [recorders EXCEPT ![mediaRecorderRef] =
                    [state |-> IF @.state = "recording" THEN "stopping" ELSE @.state,
                     onstop |-> @.onstop]]
            /\ isRecording' = FALSE
            /\ liveTimers' = IF timerRef # Null THEN liveTimers \ {timerRef} ELSE liveTimers
            /\ UNCHANGED <<mounted, duration, stream, mediaRecorderRef, chunksRef,
                           timerRef, startPc, openStreams, alerts, saved, elapsed,
                           delivered, recorderMime, welcomeVars, clientVars, vizVars>>
       ELSE UNCHANGED <<recVars, welcomeVars, clientVars, vizVars>>

\* stopRecording is invoked
StopRecording ==
  /\ mounted
  /\ lastOp' = "stopRecording"
  /\ IF StopGuard
       THEN /\ recorders' =
                 [recorders EXCEPT ![mediaRecorderRef] =
                    [state |-> IF @.state = "recording" THEN "stopping" ELSE @.state,
                     onstop |-> [set |-> TRUE, stream |-> stream, duration |-> duration]]]
            /\ isRecording' = FALSE
            /\ liveTimers' = IF timerRef # Null THEN liveTimers \ {timerRef} ELSE liveTimers
            /\ UNCHANGED <<mounted, duration, stream, mediaRecorderRef, chunksRef,
                           timerRef, startPc, openStreams, alerts, saved, elapsed,
                           delivered, recorderMime, welcomeVars, clientVars, vizVars>>
       ELSE UNCHANGED <<recVars, welcomeVars, clientVars, vizVars>>

\* ondataavailable: keep the chunk unless it is empty
OnDataAvailable(chunks, r, size) ==
  IF size > 0 THEN Append(chunks, [rec |-> r, size |-> size, enc |-> recorderMime])
  ELSE chunks

\* the task queued by MediaRecorder.stop(): the recorder delivers its data
\* (dataavailable), goes inactive and fires stop, which runs the onstop
\* handler installed by stopRecording
RecorderStops(r, size) ==
  /\ recorders[r].state = "stopping"
  /\ LET h == recorders[r].onstop
         chunks == OnDataAvailable(chunksRef, r, size)
     IN /\ chunksRef' = chunks
        /\ delivered' = [delivered EXCEPT ![r] = OnDataAvailable(@, r, size)]
        /\ recorders' = [recorders EXCEPT ![r].state = "inactive"]
        /\ IF h.set
             THEN /\ openStreams' = IF h.stream # Null THEN openStreams \ {h.stream} ELSE openStreams
                  /\ stream' = SetState(stream, Null)
                  /\ saved' = Append(saved, [rec |-> r, blob |-> chunks, type |-> BlobType,
                                             duration |-> h.duration])
             ELSE UNCHANGED <<openStreams, stream, saved>>
  /\ lastOp' = "onstop"
  /\ UNCHANGED <<mounted, isRecording, duration, mediaRecorderRef, timerRef,
                 startPc, liveTimers, alerts, elapsed, recorderMime,
                 welcomeVars, clientVars, vizVars>>

\* one second passes for a live interval: setDuration(prev => prev + 1)
Tick(t) ==
  /\ t \in liveTimers
  /\ duration < MaxDuration
  /\ elapsed[t] < MaxDuration
  /\ duration' = SetState(duration, duration + 1)
  /\ elapsed' = [elapsed EXCEPT ![t] = @ + 1]
  /\ lastOp' = "tick"
  /\ UNCHANGED <<mounted, isRecording, stream, mediaRecorderRef, chunksRef,
                 timerRef, startPc, recorders, openStreams, liveTimers,
                 alerts, saved, delivered, recorderMime,
                 welcomeVars, clientVars, vizVars>>

\* the parent unmounts the recorder: the only cleanup is `mounted = false`
Unmount ==
  /\ mounted
  /\ mounted' = FALSE
  /\ lastOp' = "unmount"
  /\ UNCHANGED <<isRecording, duration, stream, mediaRecorderRef, chunksRef,
                 timerRef, startPc, recorders, openStreams, liveTimers,
                 alerts, saved, elapsed, delivered, recorderMime,
                 welcomeVars, clientVars, vizVars>>

\* cancel(): the component receives onCancel but never calls it and has no
\* cancel handler of its own, and its stream, recorder and interval are
\* private to it; a cancel issued by the parent from Recording or Stopped can
\* only take the recorder away, which runs the same cleanup as Unmount
Cancel ==
  /\ mounted
  /\ isRecording \/ saved # <<>> \/ \E r \in Calls : recorders[r].state = "stopping"
  /\ mounted' = FALSE
  /\ lastOp' = "cancel"
  /\ UNCHANGED <<isRecording, duration, stream, mediaRecorderRef, chunksRef,
                 timerRef, startPc, recorders, openStreams, liveTimers,
                 alerts, saved, elapsed, delivered, recorderMime,
                 welcomeVars, clientVars, vizVars>>

\* fetchWelcome: the promise of getWelcomeMessage settles
WelcomeSettles(o) ==
  /\ welcomeOut.kind = "pending"
  /\ welcomeIn' = o
  /\ welcomeOut' = getWelcomeMessage(o)
  /\ welcomeMessage' = IF welcomeOut'.kind = "returns"
                         THEN SetState(welcomeMessage, welcomeOut'.value)
                         ELSE welcomeMessage
  /\ isLoadingMessage' = SetState(isLoadingMessage, FALSE)
  /\ lastOp' = "welcome"
  /\ UNCHANGED <<recVars, clientVars, vizVars>>

Next ==
  \/ StartRecording
  \/ \E c \in Calls : GetUserMediaRejects(c)
  \/ \E c \in Calls : GetUserMediaResolves(c)
  \/ \E c \in Calls : MediaRecorderThrows(c)
  \/ StopRecording
  \/ \E r \in Calls, size \in {0, 1} : RecorderStops(r, size)
  \/ \E t \in Calls : Tick(t)
  \/ Unmount
  \/ Cancel
  \/ \E o \in BackendOutcomes : WelcomeSettles(o)

Spec == Init /\ [][Next]_vars

\* ---- the audio payload analyzeInterview builds from the Blob it is given
\* FileReader.readAsDataURL: "data:<type>;base64,<content>", kept as the
\* parts a split(",") yields
ReadAsDataURL(blob, type) == << <<"data:", type, ";base64">>, blob >>
\* blobToBase64: the part after the comma
blobToBase64(blob, type) == ReadAsDataURL(blob, type)[2]
\* the inlineData part of the request
InlineData(artifact) ==
  [mimeType |-> "audio/wav", data |-> blobToBase64(artifact.blob, artifact.type)]

\* --------------------------------------------- the analysis client alone
\* analyzeTextTranscript or analyzeInterview has been called and the backend
\* is about to behave in one of the ways above
InitClient ==
  /\ RecorderInit
  /\ \/ clientFn = "text" /\ clientIn \in AnalysisOutcomes
     \/ clientFn = "audio" /\ clientIn \in AnalysisOutcomes \cup {ReadFailure}
  /\ clientOut = Pending
  /\ VisualizerInit
  /\ lastOp = "call"

TextAnalysisSettles ==
  /\ clientFn = "text"
  /\ clientOut.kind = "pending"
  /\ clientOut' = analyzeTextTranscript(clientIn)
  /\ lastOp' = "analyzeTextTranscript"
  /\ UNCHANGED <<recVars, welcomeVars, vizVars, clientFn, clientIn>>

AudioAnalysisSettles ==
  /\ clientFn = "audio"
  /\ clientOut.kind = "pending"
  /\ clientOut' = analyzeInterview(clientIn)
  /\ lastOp' = "analyzeInterview"
  /\ UNCHANGED <<recVars, welcomeVars, vizVars, clientFn, clientIn>>

NextClient == TextAnalysisSettles \/ AudioAnalysisSettles

SpecClient == InitClient /\ [][NextClient]_vars

\* ------------------------------------------- MicrophoneVisualizer alone
\* The visualizer is rendered with the recorder's stream and isRecording as
\* its props (InterviewRecorder.tsx line 121).  Here the parent may pass any
\* pair of props; the effect of lines 14-76 is a passive effect, so it runs
\* in a task of its own after the commit, and React flushes it before the
\* next render of the component.
recRest == <<duration, mediaRecorderRef, chunksRef, timerRef, startPc,
             recorders, openStreams, liveTimers, alerts, saved, elapsed,
             delivered, recorderMime>>

\* draw gets past its two early returns (lines 32 and 35) and requests the
\* next frame at line 40; ok: canvas.getContext('2d') returned a context
Requests(ok) == canvasRef /\ ok

\* draw, lines 30-68, run for the loop of context `loop`: the callbacks
\* pending afterwards
draw(fr, loop, ok) ==
  IF Requests(ok) THEN fr \cup {[id |-> nextFrame, loop |-> loop]} ELSE fr

\* line 73 without the cancellation
FramesAfterCleanup_mut(fr, ref) == fr
\* line 73: if (animationRef.current) cancelAnimationFrame(animationRef.current)
FramesAfterCleanup(fr, ref) ==
  IF ref # Null THEN {f \in fr : f.id # ref} ELSE fr

\* line 74: audioContext.close() of the context the cleanup closes over
ContextsAfterCleanup(ctxs, own) == {c \in ctxs : c.id # own}

\* the parent renders the visualizer with props that differ from the last
\* ones: the deps [stream, isRecording] changed, the effect is scheduled
Rerender(s, r) ==
  /\ mounted /\ ~effectPending
  /\ <<s, r>> # <<stream, isRecording>>
  /\ stream' = s
  /\ isRecording' = r
  /\ effectPending' = TRUE
  /\ lastOp' = "render"
  /\ UNCHANGED <<mounted, recRest, welcomeVars, clientVars, canvasRef,
                 animationRef, audioContexts, frames, effectCleanup,
                 nextContext, nextFrame>>

\* the visualizer is removed: the canvas ref is detached at the commit, the
\* last effect's cleanup is scheduled
UnmountVisualizer ==
  /\ mounted /\ ~effectPending
  /\ mounted' = FALSE
  /\ canvasRef' = FALSE
  /\ effectPending' = TRUE
  /\ lastOp' = "unmount"
  /\ UNCHANGED <<isRecording, stream, recRest, welcomeVars, clientVars,
                 animationRef, audioContexts, frames, effectCleanup,
                 nextContext, nextFrame>>

\* React runs the previous effect's cleanup (lines 72-75), if it returned
\* one, and then, unless the component was unmounted, the effect body
\* (lines 15-70) with the committed props
RunEffect(ok) ==
  /\ effectPending
  /\ LET runs    == mounted /\ stream # Null /\ canvasRef
         cleaned == IF effectCleanup # Null
                      THEN FramesAfterCleanup(frames, animationRef)
                      ELSE frames
         open    == IF effectCleanup # Null
                      THEN ContextsAfterCleanup(audioContexts, effectCleanup)
                      ELSE audioContexts
     IN /\ runs => nextContext <= MaxContexts
        /\ (runs /\ Requests(ok)) => nextFrame <= MaxFrames
        /\ audioContexts' =
             IF runs
               THEN open \cup {[id |-> nextContext, stream |-> stream,
                                isRecording |-> isRecording]}
               ELSE open
        /\ frames' = IF runs THEN draw(cleaned, nextContext, ok) ELSE cleaned
        /\ animationRef' = IF runs /\ Requests(ok) THEN nextFrame ELSE animationRef
        /\ nextFrame' = IF runs /\ Requests(ok) THEN nextFrame + 1 ELSE nextFrame
        /\ nextContext' = IF runs THEN nextContext + 1 ELSE nextContext
        /\ effectCleanup' = IF runs THEN nextContext ELSE Null
  /\ effectPending' = FALSE
  /\ lastOp' = "effect"
  /\ UNCHANGED <<recVars, welcomeVars, clientVars, canvasRef>>

\* the browser runs the requested animation-frame callback with id i: draw
\* of the loop that requested it
Frame(i, ok) ==
  \E f \in frames :
    /\ f.id = i
    /\ Requests(ok) => nextFrame <= MaxFrames
    /\ frames' = draw(frames \ {f}, f.loop, ok)
    /\ animationRef' = IF Requests(ok) THEN nextFrame ELSE animationRef
    /\ nextFrame' = IF Requests(ok) THEN nextFrame + 1 ELSE nextFrame
    /\ lastOp' = "frame"
    /\ UNCHANGED <<recVars, welcomeVars, clientVars, canvasRef, audioContexts,
                   effectCleanup, effectPending, nextContext>>

NextVisualizer ==
  \/ \E s \in Calls \cup {Null}, r \in BOOLEAN : Rerender(s, r)
  \/ \E ok \in BOOLEAN : RunEffect(ok)
  \/ \E i \in 1 .. MaxFrames, ok \in BOOLEAN : Frame(i, ok)
  \/ UnmountVisualizer

SpecVisualizer == Init /\ [][NextVisualizer]_vars

TypeOK ==
  /\ mounted \in BOOLEAN /\ isRecording \in BOOLEAN
  /\ duration \in 0 .. MaxDuration
  /\ stream \in Calls \cup {Null}
  /\ mediaRecorderRef \in Calls \cup {Null}
  /\ timerRef \in Calls \cup {Null}
  /\ openStreams \subseteq Calls /\ liveTimers \subseteq Calls
  /\ isRecording => (mediaRecorderRef # Null /\ recorders[mediaRecorderRef].state = "recording")
  /\ (mounted /\ stream # Null) => stream \in openStreams
\* ================================================================ claims

\* a stop() has been issued and its stop event has not fired yet
StopPending == \E r \in Calls : recorders[r].state = "stopping"
\* the streams that startRecording acquired for a recording that began
RecordingStreams == { c \in openStreams : recorders[c].state # "absent" }

\* C1: whenever the recorder is unmounted, or Idle with no stop finalization
\* pending, no microphone stream acquired for a recording is still open
\* (release on normal stop, on cancel and on teardown while recording).
C1_StreamReleasedOnEveryExit ==
  (~mounted \/ (~isRecording /\ ~StopPending)) => RecordingStreams = {}

\* C2: when onSave hands a recording over, the microphone stream of that
\* recording has already been released.
C2_ReleaseBeforeHandOff ==
  (lastOp = "onstop" /\ saved # <<>>) => saved[Len(saved)].rec \notin openStreams

\* the recorder is Idle: not recording, no interval running, no stream held
Idle == ~isRecording /\ liveTimers = {} /\ openStreams = {} /\ stream = Null
\* a startRecording invocation ends in its catch block
StartFails == \E c \in Calls : startPc[c] = "awaiting" /\ startPc'[c] = "failed"

\* C3: a startRecording that fails before recording has begun leaves an Idle
\* recorder Idle and raises a warning.
C3_FailedStartStaysIdle ==
  [][(StartFails /\ Idle) => (Idle' /\ alerts' = alerts + 1)]_vars

\* the backend call succeeded and an analysis entry point has settled
Settled == clientOut.kind # "pending"
CallReturned == clientIn.ctor = "ok" /\ clientIn.read = "ok"
                  /\ clientIn.call \in {"absent", "returns"}
NoText == clientIn.call = "absent" \/ clientIn.text = <<>>

\* C4: text and audio analysis fail with the empty-response error, and return
\* no result, when the backend call succeeds with absent or empty text.
C4_EmptyResponseFails ==
  (Settled /\ CallReturned /\ NoText) =>
     (clientOut.kind = "rejects" /\ clientOut.error = NoResponseError)

C4_Witness ==
  /\ clientFn = "audio" /\ Settled /\ CallReturned
  /\ clientIn.call = "returns" /\ clientIn.text = <<>>
  /\ clientOut.kind = "rejects"

\* the schema of section 6: every field that is present has its type
IsStr(val) == val.t = "str"
IsArrayOf(val, Elem(_)) == val.t = "arr" /\ \A i \in 1 .. Len(val.v) : Elem(val.v[i])
IsFlatObject(val) == val.t = "obj" /\ \A i \in 1 .. Len(val.v) : IsStr(val.v[i][2])
FieldTyped(val, f) ==
  IF f = "summary" THEN IsStr(Field(val, f))
  ELSE IF f \in {"satellites", "suggestions"} THEN IsArrayOf(Field(val, f), IsStr)
  ELSE IsArrayOf(Field(val, f), IsFlatObject)
SchemaOK(val) ==
  val.t = "obj" /\ \A f \in ResultFields : HasField(val, f) => FieldTyped(val, f)
ExpectedShape(text) ==
  LET p == JSONParse(text) IN p.ok /\ SchemaOK(p.val)

\* C5: text and audio analysis fail, and return no result, when the backend's
\* text is not JSON or is JSON without the schema's types.
C5_MalformedResultFails ==
  (Settled /\ CallReturned /\ ~NoText /\ ~ExpectedShape(clientIn.text)) =>
     clientOut.kind = "rejects"

\* the default a missing field degrades to
EmptyOf(f) == IF f = "summary" THEN JStr("") ELSE JArr(<<>>)

\* C6: for a well-formed payload that lacks some of the six fields, the
\* returned result has all six fields, the missing ones empty.
C6_MissingFieldsDefaulted ==
  (Settled /\ CallReturned /\ ~NoText /\ ExpectedShape(clientIn.text)) =>
     /\ clientOut.kind = "returns"
     /\ \A f \in ResultFields :
          /\ HasField(clientOut.value, f)
          /\ ~HasField(JSONParse(clientIn.text).val, f) =>
                Field(clientOut.value, f) = EmptyOf(f)

\* C7: getWelcomeMessage always returns: the backend's text when that is
\* non-empty, the fixed fallback for every other outcome; it never rejects.
C7_WelcomeNeverFails ==
  welcomeOut.kind # "pending" =>
     /\ welcomeOut.kind = "returns"
     /\ welcomeOut.value = IF welcomeIn.ctor = "ok" /\ welcomeIn.call = "returns"
                                /\ welcomeIn.text # ""
                             THEN welcomeIn.text ELSE FallbackWelcome

\* C8: stopRecording invoked while not recording changes nothing: no
\* artifact, no onSave, and isRecording, duration, stream, timer and chunk
\* buffer stay as they are.
C8_StopWhenIdleIsNoOp ==
  [][(lastOp' = "stopRecording" /\ ~isRecording) =>
        UNCHANGED <<recVars, welcomeVars, clientVars>>]_vars

\* stopRecording was invoked after the previous recording was stopped and
\* handed over
C8_Witness ==
  /\ lastOp = "stopRecording" /\ ~isRecording
  /\ mediaRecorderRef # Null
  /\ recorders[mediaRecorderRef].state = "inactive"
  /\ Len(saved) = 1

\* C9: once stopRecording has run, no interval created by an earlier
\* startRecording stays live until a new recording begins.
C9_NoTimerAfterStop ==
  (mounted /\ ~isRecording) => liveTimers = {}

\* C10: the duration handed over with a recording is the number of
\* one-second ticks of that recording.
C10_DurationCountsTicks ==
  \A i \in 1 .. Len(saved) : saved[i].duration = elapsed[saved[i].rec]
FailureKind(err) ==
  IF err = NoResponseError THEN "BackendEmptyResponse"
  ELSE IF err = "SyntaxError" THEN "MalformedResult"
  ELSE "BackendUnavailable"

\* C12: an error raised by the backend call reaches the caller as a failure
\* that is told apart from the empty-response and malformed-result failures.
C12_TransportErrorIsBackendUnavailable ==
  (Settled /\ clientIn.ctor = "ok" /\ clientIn.read = "ok" /\ clientIn.call = "throws") =>
     (clientOut.kind = "rejects" /\ FailureKind(clientOut.error) = "BackendUnavailable")
\* C13: the settlement of the welcome fetch changes nothing of the recorder
\* (isRecording, duration, stream, timer, chunks) and neither shows nor
\* hides the Start and Stop controls.
C13_WelcomeDoesNotGateControls ==
  [][lastOp' = "welcome" =>
        /\ UNCHANGED recVars
        /\ StartShown' = StartShown
        /\ StopShown' = StopShown]_vars

\* the welcome fetch settled while a recording was active, and the Start
\* control had been usable while it was pending
C13_Witness ==
  /\ lastOp = "welcome" /\ welcomeOut.kind # "pending"
  /\ isRecording /\ StopShown /\ ~isLoadingMessage
\* C14: once the recorder is unmounted, an outcome that arrives late (welcome
\* message, permission grant, recorder stop event) sets no state, starts no
\* timer, opens no stream and makes no onSave call.
C14_LateOutcomesDiscarded ==
  [][~mounted =>
        /\ UNCHANGED <<isRecording, duration, stream, welcomeMessage,
                       isLoadingMessage, saved>>
        /\ liveTimers' \subseteq liveTimers
        /\ openStreams' \subseteq openStreams]_vars
\* C15: the media-type tag sent with a recording's audio payload is the
\* encoding its MediaRecorder actually produced.
C15_MimeTagMatchesEncoding ==
  \A i \in 1 .. Len(saved) : InlineData(saved[i]).mimeType = recorderMime
\* the onSave calls made for recording r
SavedFor(r) == { i \in 1 .. Len(saved) : saved[i].rec = r }

\* C16: a recording stopped before any tick of its interval is handed over
\* exactly once, with duration 0, and its microphone stream is released.
C16_ZeroDurationRecording ==
  \A r \in Calls :
     (recorders[r].state = "inactive" /\ elapsed[r] = 0) =>
        /\ Cardinality(SavedFor(r)) = 1
        /\ \A i \in SavedFor(r) : saved[i].duration = 0
        /\ r \notin openStreams
\* C17: for every valid payload the returned result re-serializes to the
\* payload itself: every field's content is unchanged, transcriptSegments and
\* diachronicStructure keep the backend's order, an empty satellites list
\* stays an empty sequence.
C17_ResultCarriesPayloadUnchanged ==
  (Settled /\ CallReturned /\ ~NoText /\ ExpectedShape(clientIn.text)) =>
     /\ clientOut.kind = "returns"
     /\ JSONStringify(clientOut.value) = clientIn.text

\* the full payload of the text-analysis scenario was returned
C17_Witness ==
  /\ clientFn = "text" /\ Settled
  /\ clientIn.text = JSONStringify(FullDoc)
  /\ clientOut.kind = "returns"
  /\ Field(clientOut.value, "transcriptSegments") = JArr(<<Segment, Segment2>>)
  /\ Field(clientOut.value, "satellites") = JArr(<<>>)
\* C18: at most one microphone stream and at most one duration interval
\* acquired by the recorder are live at any time.
C18_OneStreamOneTimer ==
  Cardinality(openStreams) <= 1 /\ Cardinality(liveTimers) <= 1

\* C19: the artifact handed over for a recording is exactly the non-empty
\* chunks its own MediaRecorder delivered, in delivery order, for every
\* interleaving of starts, stops and stop events.
C19_ArtifactIsOwnChunks ==
  \A i \in 1 .. Len(saved) : saved[i].blob = delivered[saved[i].rec]
\* the event loop runs the task that MediaRecorder.stop() queued
SpecFair ==
  Spec /\ WF_vars(\E r \in Calls, size \in {0, 1} : RecorderStops(r, size))
\* every stop of an active recording is followed by its hand-over
StopLeadsToSave ==
  \A r \in Calls : (recorders[r].state = "stopping") ~> (Cardinality(SavedFor(r)) = 1)

\* C20: a recording has exactly one onSave call once its recorder's stop
\* event has fired and none before; onSave is never called for a recording
\* that was not started and stopped, and never twice for one recording.
C20_OneSavePerStoppedRecording ==
  \A r \in Calls :
     Cardinality(SavedFor(r)) = IF recorders[r].state = "inactive" THEN 1 ELSE 0

\* two recordings were stopped and each was handed over once
C20_Witness ==
  /\ lastOp = "onstop" /\ Len(saved) = 2
  /\ saved[1].rec # saved[2].rec
  /\ \A r \in Calls : recorders[r].state = "inactive"

\* C21: every AudioContext and animation-frame loop the visualizer's effect
\* created for a (stream, isRecording) pair is closed or cancelled when the
\* pair changes or the component unmounts: at most one AudioContext is open
\* and at most one draw callback is requested at any time, a requested
\* callback belongs to the open context, and once the effect has run the
\* open context is the one made for the current props, so none is open and
\* none is requested when stream is null or the component is gone.
C21_OneContextOneLoop ==
  /\ Cardinality(audioContexts) <= 1
  /\ Cardinality(frames) <= 1
  /\ \A f \in frames : \E c \in audioContexts : c.id = f.loop
  /\ ~effectPending =>
       /\ \A c \in audioContexts :
            mounted /\ c.stream = stream /\ c.isRecording = isRecording
       /\ (stream = Null \/ ~mounted) => (audioContexts = {} /\ frames = {})

\* the effect ran again after its deps changed while an earlier loop had
\* already drawn frames: the earlier context is gone, the new loop is live
C21_Witness ==
  /\ lastOp = "effect"
  /\ \E c \in audioContexts : c.id >= 2
  /\ \E f \in frames : f.id >= 3
====
